---------------------------- MODULE Spec2Model ----------------------------
(***************************************************************************)
(* StandardNamespaceInMemory (ua/server/src/server/standard_namespace.cpp) *)
(* An in-memory OPC UA address space: a multimap of references keyed by    *)
(* source node, a flat list of attribute values, and the Browse / Read /   *)
(* Write services over them.                                               *)
(*                                                                         *)
(* Three specifications share the variables:                               *)
(*   Spec      the object as CreateStandardNamespace() hands it out: the   *)
(*             stores are what the constructor's Fill() built;             *)
(*   SpecRefs  a constructor that inserts arbitrary references with        *)
(*             AddReference before the Browse service runs;                *)
(*   SpecClosure  the same with forward references of one node class     *)
(*             only, browsed with includeSubtypes;                         *)
(*   SpecAttrs a constructor that inserts arbitrary attribute values with  *)
(*             AddValue before the Read / Write services run.              *)
(***************************************************************************)
EXTENDS Integers, Sequences, FiniteSets, TLC

VARIABLES
    Referencies,      \* ReferenciesMap: sequence of [first, second] pairs in iteration order
    AttributeValues,  \* std::vector<AttributeValue>
    phase,            \* "building" (in the constructor), "running", "crashed"
    op,               \* the last service call: [name, args]
    result,           \* what it returned: [returns, value]
    added             \* history: the (node, attribute, value) triples passed to AddValue

vars == <<Referencies, AttributeValues, phase, op, result, added>>

-----------------------------------------------------------------------------
(* Bounds of the model *)

MaxRefs == 2        \* references a SpecRefs constructor inserts
MaxAttrs == 2       \* attribute values a SpecAttrs constructor inserts
MaxRequests == 2    \* length of a Read / Write request sequence

-----------------------------------------------------------------------------
(* Identities and enumerations *)

Null == "Null"      \* ObjectID::Null, the "no reference type filter" sentinel

\* Order of the multimap keys (std::less<ObjectID>): the numeric identifier of
\* each node in namespace 0, as opc/ua/object_ids.h takes them from the
\* OPC UA standard node set.
KeyRank(n) ==
    CASE n = "Null" -> 0
      [] n = "References" -> 31
      [] n = "NonHierarchicalReferences" -> 32
      [] n = "HierarchicalReferences" -> 33
      [] n = "HasChild" -> 34
      [] n = "Organizes" -> 35
      [] n = "HasEventSource" -> 36
      [] n = "HasTypeDefinition" -> 40
      [] n = "Aggregates" -> 44
      [] n = "HasSubtype" -> 45
      [] n = "FolderType" -> 61
      [] n = "RootFolder" -> 84
      [] n = "ObjectsFolder" -> 85
      [] n = "TypesFolder" -> 86
      [] n = "ViewsFolder" -> 87
      [] n = "ReferenceTypes" -> 91

\* static_cast<uint32_t>(NodeClass): one bit per node class, the values of
\* opc/ua/node_classes.h.
NodeClassValue(c) ==
    CASE c = "Object" -> 1
      [] c = "Variable" -> 2
      [] c = "Method" -> 4
      [] c = "ObjectType" -> 8
      [] c = "VariableType" -> 16
      [] c = "ReferenceType" -> 32

\* a & b on unsigned integers.
RECURSIVE BitAnd(_, _)
BitAnd(a, b) ==
    IF a = 0 \/ b = 0 THEN 0
    ELSE (a % 2) * (b % 2) + 2 * BitAnd(a \div 2, b \div 2)

Range(s) == {s[i] : i \in 1..Len(s)}

\* A call that returned `v`, and a call that never returns (stack exhausted).
Returned(v) == [returns |-> TRUE, value |-> v]
StackOverflow == [returns |-> FALSE, value |-> <<>>]

-----------------------------------------------------------------------------
(* The reference store *)

\* AddReference: build the ReferenceDescription and insert it in the multimap.
\* An element with an equivalent key goes after the ones already there.
ReferenceDescription(isForward, referenceType, targetNode, name, targetNodeClass, targetNodeTypeDefinition) ==
    [TypeID |-> referenceType,
     IsForward |-> isForward,
     TargetNodeID |-> targetNode,
     BrowseName |-> name,
     DisplayName |-> name,
     TargetNodeClass |-> targetNodeClass,
     TargetNodeTypeDefinition |-> targetNodeTypeDefinition]

Insert(refs, sourceNode, desc) ==
    LET k == Cardinality({i \in 1..Len(refs) : KeyRank(refs[i].first) <= KeyRank(sourceNode)})
    IN SubSeq(refs, 1, k) \o <<[first |-> sourceNode, second |-> desc]>> \o SubSeq(refs, k + 1, Len(refs))

forward == TRUE
reverse == TRUE

\* The AddReference calls of Root, Types, ReferenceTypes, Refs,
\* HierarchicalReferences and HasChild, in the order Fill() makes them
\* (HasEventSource and Organizes insert nothing).
FillCalls ==
    << <<"RootFolder", forward, "HasTypeDefinition", "FolderType", "FolderType", "ObjectType", Null>>,
       <<"RootFolder", forward, "Organizes", "ObjectsFolder", "Objects", "Object", "FolderType">>,
       <<"RootFolder", forward, "Organizes", "TypesFolder", "Types", "Object", "FolderType">>,
       <<"RootFolder", forward, "Organizes", "ViewsFolder", "Views", "Object", "FolderType">>,
       <<"TypesFolder", forward, "HasTypeDefinition", "FolderType", "FolderType", "ObjectType", Null>>,
       <<"TypesFolder", forward, "Organizes", "ReferenceTypes", "ReferenceTypes", "Object", "FolderType">>,
       <<"ReferenceTypes", forward, "HasTypeDefinition", "FolderType", "ReferenceTypes", "ObjectType", Null>>,
       <<"ReferenceTypes", forward, "Organizes", "References", "References", "ReferenceType", Null>>,
       <<"References", forward, "HasSubtype", "HierarchicalReferences", "HierarchicalReferences", "ReferenceType", Null>>,
       <<"References", forward, "HasSubtype", "NonHierarchicalReferences", "NonHierarchicalReferences", "ReferenceType", Null>>,
       <<"HierarchicalReferences", forward, "HasSubtype", "HasChild", "HasChild", "ReferenceType", Null>>,
       <<"HierarchicalReferences", forward, "HasSubtype", "HasEventSource", "HasEventSource", "ReferenceType", Null>>,
       <<"HierarchicalReferences", forward, "HasSubtype", "Organizes", "Organizes", "ReferenceType", Null>>,
       <<"HasChild", forward, "HasSubtype", "Aggregates", "Aggregates", "ReferenceType", Null>>,
       <<"HasChild", forward, "HasSubtype", "HasSubtype", "HasSubtype", "ReferenceType", Null>> >>

RECURSIVE FillFrom(_, _)
FillFrom(refs, i) ==
    IF i > Len(FillCalls) THEN refs
    ELSE LET c == FillCalls[i]
         IN FillFrom(Insert(refs, c[1], ReferenceDescription(c[2], c[3], c[4], c[5], c[6], c[7])), i + 1)

Fill == FillFrom(<<>>, 1)

-----------------------------------------------------------------------------
(* Browse *)

\* SelectNodesHierarchy without the recursive call: the sources and their
\* direct targets only.
SelectNodesHierarchyOneLevel(sourceNodes, depth) ==
    LET hit == SelectSeq(Referencies, LAMBDA r : r.first \in Range(sourceNodes))
        subNodes == [i \in 1..Len(hit) |-> hit[i].second.TargetNodeID]
    IN Returned(sourceNodes \o subNodes)

\* SelectNodesHierarchy at recursion depth `depth`. Each level collects the
\* targets of every reference whose source is among sourceNodes and recurses
\* on them. Level k has a non-empty subNodes only if the store holds a walk
\* of k references; a walk longer than the store repeats a reference, so it
\* lies on a cycle and every deeper level is non-empty too: the recursion
\* then never bottoms out.
RECURSIVE SelectNodesHierarchyRec(_, _)
SelectNodesHierarchyRec(sourceNodes, depth) ==
    LET hit == SelectSeq(Referencies, LAMBDA r : r.first \in Range(sourceNodes))
        subNodes == [i \in 1..Len(hit) |-> hit[i].second.TargetNodeID]
    IN IF subNodes = <<>> THEN Returned(sourceNodes)
       ELSE IF depth > Len(Referencies) THEN StackOverflow
       ELSE LET allChilds == SelectNodesHierarchyRec(subNodes, depth + 1)
            IN IF allChilds.returns
               THEN Returned(sourceNodes \o allChilds.value)
               ELSE StackOverflow

SelectNodesHierarchy(sourceNodes) == SelectNodesHierarchyRec(sourceNodes, 1)

IsSuitableReferenceType(reference, typeID, includeSubtypes) ==
    IF ~includeSubtypes THEN Returned(reference.TypeID = typeID)
    ELSE LET suitableTypes == SelectNodesHierarchy(<<typeID>>)
         IN IF suitableTypes.returns
            THEN Returned(reference.TypeID \in Range(suitableTypes.value))
            ELSE StackOverflow

\* The tests IsSuitableReference makes after the test of the source node, the
\* node class test optional: what its two variants below are built from.
PassesFilters(desc, reference, checkClass) ==
    IF (desc.Direction = "Forward" /\ ~reference.IsForward)
       \/ (desc.Direction = "Inverse" /\ reference.IsForward)
    THEN Returned(FALSE)
    ELSE LET byType == IF desc.ReferenceTypeID # Null
                       THEN IsSuitableReferenceType(reference, desc.ReferenceTypeID, desc.IncludeSubtypes)
                       ELSE Returned(TRUE)
         IN IF ~byType.returns THEN StackOverflow
            ELSE IF ~byType.value THEN Returned(FALSE)
            ELSE IF checkClass /\ desc.NodeClasses # 0
                    /\ BitAnd(desc.NodeClasses, NodeClassValue(reference.TargetNodeClass)) = 0
            THEN Returned(FALSE)
            ELSE Returned(TRUE)

\* IsSuitableReference without the test of the source node.
IsSuitableReferenceAnySource(desc, refPair) ==
    PassesFilters(desc, refPair.second, TRUE)

\* IsSuitableReference without the test of the node class mask.
IsSuitableReferenceNoClassMask(desc, refPair) ==
    IF desc.NodeToBrowse # refPair.first THEN Returned(FALSE)
    ELSE PassesFilters(desc, refPair.second, FALSE)

IsSuitableReference(desc, refPair) ==
    LET sourceNode == refPair.first
        reference == refPair.second
    IN IF desc.NodeToBrowse # sourceNode THEN Returned(FALSE)
       ELSE IF (desc.Direction = "Forward" /\ ~reference.IsForward)
               \/ (desc.Direction = "Inverse" /\ reference.IsForward)
       THEN Returned(FALSE)
       ELSE LET byType == IF desc.ReferenceTypeID # Null
                          THEN IsSuitableReferenceType(reference, desc.ReferenceTypeID, desc.IncludeSubtypes)
                          ELSE Returned(TRUE)
            IN IF ~byType.returns THEN StackOverflow
               ELSE IF ~byType.value THEN Returned(FALSE)
               ELSE IF desc.NodeClasses # 0
                       /\ BitAnd(desc.NodeClasses, NodeClassValue(reference.TargetNodeClass)) = 0
               THEN Returned(FALSE)
               ELSE Returned(TRUE)

\* The loop of Browse over the whole multimap.
BrowseResult(desc) ==
    IF \E i \in 1..Len(Referencies) : ~IsSuitableReference(desc, Referencies[i]).returns
    THEN StackOverflow
    ELSE LET kept == SelectSeq(Referencies, LAMBDA r : IsSuitableReference(desc, r).value)
         IN Returned([i \in 1..Len(kept) |-> kept[i].second])

Browse(desc) ==
    /\ phase = "running"
    /\ op.name = "none"
    /\ op' = [name |-> "Browse", args |-> desc]
    /\ result' = BrowseResult(desc)
    /\ phase' = IF BrowseResult(desc).returns THEN "running" ELSE "crashed"
    /\ UNCHANGED <<Referencies, AttributeValues, added>>

BrowseNext ==
    /\ phase = "running"
    /\ op.name = "none"
    /\ op' = [name |-> "BrowseNext", args |-> <<>>]
    /\ result' = Returned(<<>>)
    /\ UNCHANGED <<Referencies, AttributeValues, phase, added>>

\* The service call has returned to its caller; the object is idle again.
Return ==
    /\ phase = "running"
    /\ op.name # "none"
    /\ op' = [name |-> "none", args |-> <<>>]
    /\ result' = Returned(<<>>)
    /\ UNCHANGED <<Referencies, AttributeValues, phase, added>>

-----------------------------------------------------------------------------
(* The attribute store: Read and Write *)

\* A default-constructed DataValue.
DataValue == [Encoding |-> "NONE", Value |-> "EmptyVariant", Status |-> "Good"]

\* AddValue builds the record from node and attribute, marks the encoding
\* DATA_VALUE and appends it; its `value` parameter is not copied anywhere.
AttributeValue(node, attribute, value) ==
    [Node |-> node, Attribute |-> attribute,
     Value |-> [DataValue EXCEPT !.Encoding = "DATA_VALUE"]]

\* GetValue that returns a default DataValue on a miss, status not set.
GetValueNoStatus(node, attribute) ==
    LET match == {i \in 1..Len(AttributeValues) :
                      AttributeValues[i].Node = node /\ AttributeValues[i].Attribute = attribute}
    IN IF match # {}
       THEN AttributeValues[CHOOSE i \in match : \A j \in match : i <= j].Value
       ELSE DataValue

GetValue(node, attribute) ==
    LET match == {i \in 1..Len(AttributeValues) :
                      AttributeValues[i].Node = node /\ AttributeValues[i].Attribute = attribute}
    IN IF match # {}
       THEN AttributeValues[CHOOSE i \in match : \A j \in match : i <= j].Value
       ELSE [DataValue EXCEPT !.Encoding = "DATA_VALUE_STATUS_CODE", !.Status = "BadNotReadable"]

ReadResult(params) ==
    [i \in 1..Len(params) |-> GetValue(params[i].Node, params[i].Attribute)]

Read(params) ==
    /\ phase = "running"
    /\ op.name = "none"
    /\ op' = [name |-> "Read", args |-> params]
    /\ result' = Returned(ReadResult(params))
    /\ UNCHANGED <<Referencies, AttributeValues, phase, added>>

\* Write that answers with a single status whatever the number of requests.
WriteOneStatus(values) ==
    /\ phase = "running"
    /\ op.name = "none"
    /\ op' = [name |-> "Write", args |-> values]
    /\ result' = Returned(<<"BadWriteNotSupported">>)
    /\ UNCHANGED <<Referencies, AttributeValues, phase, added>>

\* Write that stores what it is given.
WriteStoring(values) ==
    /\ phase = "running"
    /\ op.name = "none"
    /\ op' = [name |-> "Write", args |-> values]
    /\ result' = Returned([i \in 1..Len(values) |-> "Good"])
    /\ AttributeValues' = AttributeValues \o
           [i \in 1..Len(values) |->
               [Node |-> values[i].Node, Attribute |-> values[i].Attribute,
                Value |-> [DataValue EXCEPT !.Encoding = "DATA_VALUE", !.Value = values[i].Data]]]
    /\ UNCHANGED <<Referencies, phase, added>>

Write(values) ==
    /\ phase = "running"
    /\ op.name = "none"
    /\ op' = [name |-> "Write", args |-> values]
    /\ result' = Returned([i \in 1..Len(values) |-> "BadWriteNotSupported"])
    /\ UNCHANGED <<Referencies, AttributeValues, phase, added>>

-----------------------------------------------------------------------------
(* Construction *)

AddReference(sourceNode, isForward, referenceType, targetNode, name, targetNodeClass, targetNodeTypeDefinition) ==
    /\ phase = "building"
    /\ Len(Referencies) < MaxRefs
    /\ Referencies' = Insert(Referencies, sourceNode,
                             ReferenceDescription(isForward, referenceType, targetNode, name,
                                                  targetNodeClass, targetNodeTypeDefinition))
    /\ UNCHANGED <<AttributeValues, phase, op, result, added>>

AddValue(node, attribute, value) ==
    /\ phase = "building"
    /\ Len(AttributeValues) < MaxAttrs
    /\ AttributeValues' = Append(AttributeValues, AttributeValue(node, attribute, value))
    /\ added' = Append(added, [Node |-> node, Attribute |-> attribute, Value |-> value])
    /\ UNCHANGED <<Referencies, phase, op, result>>

\* The constructor returns: the object is handed to its users.
Constructed ==
    /\ phase = "building"
    /\ phase' = "running"
    /\ UNCHANGED <<Referencies, AttributeValues, op, result, added>>

-----------------------------------------------------------------------------
(* Inputs *)

Directions == {"Forward", "Inverse", "Both"}

\* Spec: queries against the namespace Fill() built.
BrowsedNodes == {"RootFolder", "TypesFolder", "References", "HierarchicalReferences", "ViewsFolder"}
BrowsedTypes == {Null, "HasSubtype", "Organizes", "References", "TypesFolder"}
NodeClassMasks ==
    {0, NodeClassValue("ObjectType"), NodeClassValue("Object") + NodeClassValue("ReferenceType")}

BrowseDescriptions(nodes, types, masks) ==
    [NodeToBrowse : nodes, Direction : Directions, ReferenceTypeID : types,
     IncludeSubtypes : BOOLEAN, NodeClasses : masks]

\* SpecRefs: the identities references are built from.
GenNodes == {"References", "HasSubtype", "Organizes"}
GenTypes == {"HasSubtype", "Organizes"}
GenClasses == {"Object", "ReferenceType"}
GenMasks == {0, NodeClassValue("ReferenceType")}

\* Read / Write requests.
AttrNodes == {"RootFolder", "ObjectsFolder"}
AttributeIDs == {"NODE_ID", "NODE_CLASS"}
Variants == {"v1", "v2"}
WrittenData == {"v1"}

SeqsUpTo(S, n) == UNION {[1..k -> S] : k \in 0..n}

ReadParameters == SeqsUpTo([Node : AttrNodes, Attribute : AttributeIDs], MaxRequests)
WriteValues == SeqsUpTo([Node : AttrNodes, Attribute : AttributeIDs, Data : WrittenData], MaxRequests)

-----------------------------------------------------------------------------
(* Specifications *)

Idle == [name |-> "none", args |-> <<>>]

\* The object as constructed by StandardNamespaceInMemory().
Init ==
    /\ Referencies = Fill
    /\ AttributeValues = <<>>
    /\ phase = "running"
    /\ op = Idle
    /\ result = Returned(<<>>)
    /\ added = <<>>

Next ==
    \/ \E desc \in BrowseDescriptions(BrowsedNodes, BrowsedTypes, NodeClassMasks) : Browse(desc)
    \/ BrowseNext
    \/ \E params \in ReadParameters : Read(params)
    \/ \E values \in WriteValues : Write(values)
    \/ Return

Spec == Init /\ [][Next]_vars

\* A constructor that has inserted nothing yet.
InitEmpty ==
    /\ Referencies = <<>>
    /\ AttributeValues = <<>>
    /\ phase = "building"
    /\ op = Idle
    /\ result = Returned(<<>>)
    /\ added = <<>>

NextRefs ==
    \/ \E s \in GenNodes, f \in BOOLEAN, t \in GenTypes, n \in GenNodes, c \in GenClasses :
           AddReference(s, f, t, n, n, c, Null)
    \/ Constructed
    \/ \E desc \in BrowseDescriptions(GenNodes, GenNodes \cup {Null}, GenMasks) : Browse(desc)
    \/ BrowseNext
    \/ Return

SpecRefs == InitEmpty /\ [][NextRefs]_vars

NextAttrs ==
    \/ \E n \in AttrNodes, a \in AttributeIDs, v \in Variants : AddValue(n, a, v)
    \/ Constructed
    \/ \E params \in ReadParameters : Read(params)
    \/ \E values \in WriteValues : Write(values)
    \/ Return

SpecAttrs == InitEmpty /\ [][NextAttrs]_vars

\* Forward references to reference-type nodes only, browsed with a reference
\* type and includeSubtypes = true: the calls that reach SelectNodesHierarchy.
ClosureQueries ==
    {d \in BrowseDescriptions(GenNodes, GenNodes, {0}) : d.IncludeSubtypes}

NextClosure ==
    \/ \E s \in GenNodes, t \in GenTypes, n \in GenNodes :
           AddReference(s, forward, t, n, n, "ReferenceType", Null)
    \/ Constructed
    \/ \E desc \in ClosureQueries : Browse(desc)
    \/ BrowseNext
    \/ Return

SpecClosure == InitEmpty /\ [][NextClosure]_vars

-----------------------------------------------------------------------------
(* Properties *)

Targets(refs) == {refs[i].TargetNodeID : i \in 1..Len(refs)}

\* C1: a Browse call always returns: the subtype closure SelectNodesHierarchy
\* computes terminates on every reference store, one with a cycle included.
C1_BrowseReturns ==
    op.name = "Browse" => result.returns

\* C2 as stated: on the namespace Fill() built, browsing References forward
\* for HasSubtype with subtypes returns references to the seven reference
\* types below References, and no others.
C2Query ==
    [NodeToBrowse |-> "References", Direction |-> "Forward", ReferenceTypeID |-> "HasSubtype",
     IncludeSubtypes |-> TRUE, NodeClasses |-> 0]

C2_SevenTargets ==
    (op.name = "Browse" /\ op.args = C2Query) =>
        /\ result.returns
        /\ Targets(result.value) =
               {"HierarchicalReferences", "NonHierarchicalReferences", "HasChild",
                "HasEventSource", "Organizes", "Aggregates", "HasSubtype"}

\* C2 (amended): that Browse returns exactly the two references stored under
\* References, to HierarchicalReferences and NonHierarchicalReferences.
C2_DirectSubtypesOnly ==
    (op.name = "Browse" /\ op.args = C2Query) =>
        /\ result.returns
        /\ Len(result.value) = 2
        /\ Targets(result.value) = {"HierarchicalReferences", "NonHierarchicalReferences"}
        /\ \A i \in 1..Len(result.value) : result.value[i].TypeID = "HasSubtype"

C2_Witness ==
    op.name = "Browse" /\ op.args = C2Query /\ result.returns /\ result.value # <<>>

\* C3: Browse with direction Both returns exactly the references Browse
\* returns with Forward together with those it returns with Inverse, the other
\* arguments equal: the forward ones of Both are the Forward result, the
\* inverse ones the Inverse result.
C3_BothIsUnion ==
    (op.name = "Browse" /\ op.args.Direction = "Both") =>
        LET fwd == BrowseResult([op.args EXCEPT !.Direction = "Forward"])
            inv == BrowseResult([op.args EXCEPT !.Direction = "Inverse"])
        IN /\ result.returns /\ fwd.returns /\ inv.returns
           /\ SelectSeq(result.value, LAMBDA r : r.IsForward) = fwd.value
           /\ SelectSeq(result.value, LAMBDA r : ~r.IsForward) = inv.value

\* The same wherever the three calls return.
UnionWhereBrowseReturns ==
    (op.name = "Browse" /\ op.args.Direction = "Both") =>
        LET fwd == BrowseResult([op.args EXCEPT !.Direction = "Forward"])
            inv == BrowseResult([op.args EXCEPT !.Direction = "Inverse"])
        IN (result.returns /\ fwd.returns /\ inv.returns) =>
               /\ SelectSeq(result.value, LAMBDA r : r.IsForward) = fwd.value
               /\ SelectSeq(result.value, LAMBDA r : ~r.IsForward) = inv.value

\* C4: Write answers every request sequence with as many statuses as
\* requests, each BadWriteNotSupported, and no Read request is answered
\* differently after the Write than before it.
C4_WriteRejectsAll ==
    /\ [](op.name = "Write" =>
            /\ result.returns
            /\ Len(result.value) = Len(op.args)
            /\ \A i \in 1..Len(result.value) : result.value[i] = "BadWriteNotSupported")
    /\ [][op'.name = "Write" =>
            \A params \in ReadParameters : ReadResult(params)' = ReadResult(params)]_vars

C4_Witness ==
    op.name = "Write" /\ Len(op.args) = MaxRequests /\ AttributeValues # <<>>

Inserted(node, attribute) ==
    \E i \in 1..Len(added) : added[i].Node = node /\ added[i].Attribute = attribute

\* C5: Read returns one result per request, and at the position of a request
\* for a (node, attribute) pair never inserted a status-only value with status
\* BadNotReadable.
C5_MissIsBadNotReadable ==
    op.name = "Read" =>
        /\ result.returns
        /\ Len(result.value) = Len(op.args)
        /\ \A i \in 1..Len(op.args) :
               ~Inserted(op.args[i].Node, op.args[i].Attribute) =>
                   /\ result.value[i].Encoding = "DATA_VALUE_STATUS_CODE"
                   /\ result.value[i].Status = "BadNotReadable"

C5_Witness ==
    /\ op.name = "Read" /\ Len(op.args) = MaxRequests
    /\ ~Inserted(op.args[2].Node, op.args[2].Attribute)
    /\ Inserted(op.args[1].Node, op.args[1].Attribute)

\* C6: a Read request for a (node, attribute) pair added with AddValue returns
\* the value of the first record added for that pair, tagged as a valid value.
C6_ReadReturnsStored ==
    op.name = "Read" =>
        \A i \in 1..Len(op.args) :
            Inserted(op.args[i].Node, op.args[i].Attribute) =>
                LET first == CHOOSE k \in 1..Len(added) :
                                 /\ added[k].Node = op.args[i].Node
                                 /\ added[k].Attribute = op.args[i].Attribute
                                 /\ \A j \in 1..(k - 1) :
                                        ~(added[j].Node = op.args[i].Node
                                          /\ added[j].Attribute = op.args[i].Attribute)
                IN /\ result.value[i].Encoding = "DATA_VALUE"
                   /\ result.value[i].Value = added[first].Value

\* C7: where SelectNodesHierarchy returns for a seed type T, applying it to
\* what it returned gives the same set of identities.
C7_ClosureIdempotent ==
    \A T \in GenNodes :
        LET once == SelectNodesHierarchy(<<T>>)
        IN once.returns =>
               LET twice == SelectNodesHierarchy(once.value)
               IN twice.returns /\ Range(twice.value) = Range(once.value)

C7_Witness ==
    /\ op.name = "Browse" /\ result.returns /\ result.value # <<>>
    /\ SelectNodesHierarchy(<<op.args.ReferenceTypeID>>).returns
    /\ Range(SelectNodesHierarchy(<<op.args.ReferenceTypeID>>).value) = GenNodes

\* C8: on the namespace Fill() built, browsing RootFolder forward with no
\* reference type and node class mask ObjectType returns one reference, the
\* HasTypeDefinition one to FolderType, and none of the Organizes ones.
C8_RootObjectTypesOnly ==
    (/\ op.name = "Browse"
     /\ op.args.NodeToBrowse = "RootFolder"
     /\ op.args.Direction = "Forward"
     /\ op.args.ReferenceTypeID = Null
     /\ op.args.NodeClasses = NodeClassValue("ObjectType")) =>
        /\ result.returns
        /\ Len(result.value) = 1
        /\ result.value[1].TypeID = "HasTypeDefinition"
        /\ result.value[1].TargetNodeID = "FolderType"
        /\ \A i \in 1..Len(result.value) : result.value[i].TypeID # "Organizes"

C8_Witness ==
    /\ op.name = "Browse"
    /\ op.args.NodeToBrowse = "RootFolder"
    /\ op.args.Direction = "Forward"
    /\ op.args.ReferenceTypeID = Null
    /\ op.args.NodeClasses = NodeClassValue("ObjectType")
    /\ result.returns

\* The identities reachable from `seen` along HasSubtype-typed references only.
RECURSIVE SubtypeClosure(_)
SubtypeClosure(seen) ==
    LET more == {Referencies[i].second.TargetNodeID :
                     i \in {j \in 1..Len(Referencies) :
                                /\ Referencies[j].first \in seen
                                /\ Referencies[j].second.TypeID = "HasSubtype"}}
    IN IF more \subseteq seen THEN seen ELSE SubtypeClosure(seen \cup more)

\* C9: with a reference type R and includeSubtypes, Browse returns the
\* references of the node that pass the direction and node class tests and
\* whose type is R or reachable from R along HasSubtype-typed references only.
C9_HasSubtypeEdgesOnly ==
    (op.name = "Browse" /\ op.args.ReferenceTypeID # Null /\ op.args.IncludeSubtypes) =>
        /\ result.returns
        /\ LET accepted == SubtypeClosure({op.args.ReferenceTypeID})
               kept == SelectSeq(Referencies, LAMBDA r :
                           /\ r.first = op.args.NodeToBrowse
                           /\ (op.args.Direction = "Forward" => r.second.IsForward)
                           /\ (op.args.Direction = "Inverse" => ~r.second.IsForward)
                           /\ r.second.TypeID \in accepted
                           /\ (op.args.NodeClasses # 0 =>
                                  BitAnd(op.args.NodeClasses,
                                         NodeClassValue(r.second.TargetNodeClass)) # 0))
           IN result.value = [i \in 1..Len(kept) |-> kept[i].second]

\* C10: once constructed, no Browse, BrowseNext, Read or Write call changes the
\* reference store or the attribute store.
C10_StoresUnchanged ==
    [][phase = "running" => UNCHANGED <<Referencies, AttributeValues>>]_vars

C10_Witness ==
    op.name = "Write" /\ Len(op.args) = MaxRequests /\ Referencies = Fill

=============================================================================
